---- MODULE Spec2Model ----
(***************************************************************************)
(* Reference-counted initialisation and shutdown of the OpenSSL (< 1.1.0)  *)
(* thread-safety shims of src/common/ceph_crypto.cc:                       *)
(*   ceph::crypto::ssl::init()      lines  72-120                          *)
(*   ceph::crypto::ssl::shutdown()  lines 122-164                          *)
(*   ssl_locking_callback()         lines  44-56                           *)
(*   ceph::crypto::ssl::OpenSSLDigest                 lines 177-200        *)
(* Every thread runs init() and shutdown() statement by statement; the     *)
(* only atomic object is crypto_refs, the only lock init_records.lock.     *)
(* An OpenSSLDigest object is used by one owner, one member function at a  *)
(* time.                                                                   *)
(***************************************************************************)
EXTENDS Integers, Sequences, FiniteSets, Bags, TLC

(* ------------------------------ bounds -------------------------------- *)
NumThreads == 2
MaxCalls == 2
MaxLocks == 1
MaxDepth == 2
MaxFed == 2
MaxUpdates == 2
MaxObjects == 2

Threads == 1..NumThreads
NoThread == 0

(* ---------------------- std::atomic_uint32_t -------------------------- *)
\* A 32-bit unsigned value is kept as two 16-bit limbs, so that the wrap at
\* 2^32 is exact.
LimbBase == 65536

U32(n) == [hi |-> (n \div LimbBase) % LimbBase, lo |-> n % LimbBase]

Inc32(x) ==
  IF x.lo = LimbBase - 1
    THEN [hi |-> (x.hi + 1) % LimbBase, lo |-> 0]
    ELSE [hi |-> x.hi, lo |-> x.lo + 1]

\* (faulty variant: the decrement stops at zero)
Dec32_Saturating(x) ==
  IF x = [hi |-> 0, lo |-> 0] THEN x
  ELSE IF x.lo = 0
    THEN [hi |-> (x.hi + LimbBase - 1) % LimbBase, lo |-> LimbBase - 1]
    ELSE [hi |-> x.hi, lo |-> x.lo - 1]

Dec32(x) ==
  IF x.lo = 0
    THEN [hi |-> (x.hi + LimbBase - 1) % LimbBase, lo |-> LimbBase - 1]
    ELSE [hi |-> x.hi, lo |-> x.lo - 1]

(* ------------------------- OpenSSL constants -------------------------- *)
CRYPTO_LOCK == 1
CRYPTO_UNLOCK == 2
CRYPTO_READ == 4
CRYPTO_WRITE == 8

\* the mode words CRYPTO_lock() passes to the locking callback
Modes == { CRYPTO_LOCK + CRYPTO_READ, CRYPTO_LOCK + CRYPTO_WRITE,
           CRYPTO_UNLOCK + CRYPTO_READ, CRYPTO_UNLOCK + CRYPTO_WRITE }

(* ------------------------------ state --------------------------------- *)
VARIABLES
  crypto_refs,        \* static std::atomic_uint32_t crypto_refs
  ssl_mutexes,        \* static pthread_mutex_t* ssl_mutexes (what it points to)
  mutex_array,        \* the pthread_mutex_t[] ssl_mutexes points to
  ssl_num_locks,      \* static size_t ssl_num_locks
  tids,               \* init_records.tids, as a bag: its order is never used
  lock,               \* init_records.lock (its owner)
  locking_callback,   \* OpenSSL's locking callback is ssl_locking_callback
  id_callback,        \* OpenSSL's id callback is ssl_get_thread_id
  lib_init,           \* algorithm and error-string tables are loaded
  conf_loaded,        \* OPENSSL_config() has run
  err_state,          \* thread ids owning an implicit ERR_STATE
  CRYPTO_num_locks,   \* what CRYPTO_num_locks() reports
  pc,                 \* each thread's position in init() / shutdown()
  i,                  \* each thread's loop index (size_t i), 0 outside the loops
  held,               \* references each caller holds (init() returned)
  calls,              \* init() calls made so far, by all threads
  lock_depth,         \* per thread and slot: lock calls not yet unlocked
  proc,               \* "running", "aborted" (assert) or "crashed"
  setupCount,         \* times the one-time setup has been started
  teardownCount,      \* times the library shutdown sequence has run
  period,             \* threads that incremented crypto_refs since the last 0->1
  draining,           \* per draining thread: the period it drains
  epoch,              \* caller protocol of the batched specification
  dobj,               \* the OpenSSLDigest object and the context it owns
  dcall,              \* its owner's calls: what they were given, gave and did
  handles             \* contexts created and released, objects constructed

vars == << crypto_refs, ssl_mutexes, mutex_array, ssl_num_locks, tids, lock,
           locking_callback, id_callback, lib_init, conf_loaded, err_state,
           CRYPTO_num_locks, pc, i, held, calls, lock_depth, proc,
           setupCount, teardownCount, period, draining, epoch, dobj, dcall,
           handles >>

\* values of the pointer ssl_mutexes
NULLPTR == "nullptr"
TABLE == "table"
DANGLING == "dangling"

\* the variables of the library and of the shims, without the callers' own
libvars == << lib_init, conf_loaded, err_state, CRYPTO_num_locks >>
tablevars == << ssl_mutexes, mutex_array, ssl_num_locks >>
cbvars == << locking_callback, id_callback >>
regvars == << tids, lock >>
countvars == << setupCount, teardownCount >>
ghostvars == << period, draining >>
digestvars == << dobj, dcall, handles >>

\* the OpenSSLDigest object: whether it lives ("none", "alive", "destroyed"),
\* EVP_MD_CTX *mpContext, const EVP_MD *mpType, and the EVP_MD_CTX itself
obj == dobj.obj
mpContext == dobj.mpContext
mpType == dobj.mpType
md_ctx == dobj.md_ctx

\* the buffer the owner passed to the last Final(), unsigned int s of that
\* Final(), what the owner takes the context for, the bytes passed to
\* Update() and the Update() calls made since the last Restart(), input and
\* digest of the last completed run, the member function that ran last
digest == dcall.digest
s == dcall.s
phase == dcall.phase
fed == dcall.fed
nupdates == dcall.nupdates
prev_run == dcall.prev_run
last_call == dcall.last_call

\* objects constructed so far, handles EVP_MD_CTX_create() has returned,
\* handles EVP_MD_CTX_destroy() has released
constructed == handles.constructed
created == handles.created
released == handles.released

(* --------------------------- pthread mutex ---------------------------- *)
PTHREAD_MUTEX_NORMAL == "normal"
PTHREAD_MUTEX_RECURSIVE == "recursive"

UninitMutex == [st |-> "uninit", kind |-> PTHREAD_MUTEX_NORMAL,
                owner |-> NoThread, count |-> 0]

Max(a, b) == IF a >= b THEN a ELSE b

\* pthread_mutex_init(&m, &attr) with the attribute's type
pthread_mutex_init(type) ==
  [st |-> "init", kind |-> type, owner |-> NoThread, count |-> 0]

\* pthread_mutex_lock can return for thread t: the mutex is free, or t owns
\* it and the mutex is recursive; otherwise the caller stays blocked
pthread_mutex_lockable(m, t) ==
  \/ m.owner = NoThread
  \/ m.owner = t /\ m.kind = PTHREAD_MUTEX_RECURSIVE

pthread_mutex_lock(m, t) == [m EXCEPT !.owner = t, !.count = @ + 1]

\* pthread_mutex_unlock by the owner; by any other thread it fails (EPERM)
pthread_mutex_unlock(m, t) ==
  IF m.owner # t THEN m
  ELSE IF m.count = 1 THEN [m EXCEPT !.owner = NoThread, !.count = 0]
  ELSE [m EXCEPT !.count = @ - 1]

(* ------------------------- thread identity ---------------------------- *)
\* pthread_self(): the thread's handle
pthread_self(t) == t

\* ssl_get_thread_id(): the handle's bytes copied into an unsigned long at
\* least as wide (static_assert), so the value is kept
ssl_get_thread_id(t) == pthread_self(t)

\* CRYPTO_THREADID_current(&tmp)
CRYPTO_THREADID_current(t) == ssl_get_thread_id(t)

(* ----------------------- conditions of the code ----------------------- *)
\* if (++crypto_refs == 1)
\* (faulty variant: the value before the increment is what gets compared)
IsFirstRef_PostIncrement(r) == r = U32(2)

IsFirstRef(r) == r = U32(1)

\* if (--crypto_refs != 0) return;
\* (faulty variant: the early return is missing)
OthersRemain_NoEarlyReturn(r) == FALSE

OthersRemain(r) == r # U32(0)

\* ssl_num_locks = std::max(CRYPTO_num_locks(), 0)
NumLocksFor(n) == Max(n, 0)

\* pthread_mutexattr_settype(&pthread_mutex_attr, PTHREAD_MUTEX_RECURSIVE)
\* (faulty variant: the attribute keeps its default type)
MutexAttrType_Default == PTHREAD_MUTEX_NORMAL

MutexAttrType == PTHREAD_MUTEX_RECURSIVE

\* for (size_t i = 0; i < ssl_num_locks; i++), in init() and in shutdown()
\* (faulty variant: the loop stops one slot early)
InitLoopCond_OffByOne(k) == k + 1 < ssl_num_locks

InitLoopCond(k) == k < ssl_num_locks

DestroyLoopCond(k) == k < ssl_num_locks

\* "can't allocate memory for OpenSSL init" == nullptr: a string literal is
\* never null
\* (faulty variant: the assertion's condition holds, the exception is swallowed)
CantAllocateIsNull_Swallowed == TRUE

CantAllocateIsNull == FALSE

\* init_records.tids.emplace_back(std::move(tmp))
\* (faulty variant: the registry is assigned the id instead of being appended to)
RecordTid_Overwrite(t) == SetToBag({ CRYPTO_THREADID_current(t) })

RecordTid(t) == tids (+) SetToBag({ CRYPTO_THREADID_current(t) })

\* for (tid : init_records.tids): the ids whose thread state is released
\* (faulty variant: only the caller's own id)
DrainedThreadStates_SelfOnly(t) == { CRYPTO_THREADID_current(t) }

DrainedThreadStates(t) == BagToSet(tids)

\* ssl_mutexes = nullptr
\* (faulty variant: the pointer is left at the deleted array)
ClearedPointer_Stale == ssl_mutexes

ClearedPointer == NULLPTR

\* if (mode & 1)
IsLockMode(mode) == mode % 2 = 1

\* &ssl_mutexes[k] is a mutex of a live array
ValidSlot(k) == ssl_mutexes = TABLE /\ k < Len(mutex_array)

NoLocksHeld(t) == \A n \in DOMAIN lock_depth[t] : lock_depth[t][n] = 0

Running == proc = "running"

\* Undefined behaviour (use of a null, freed, uninitialised or destroyed
\* mutex, double delete): the process faults, or goes on with no effect.
UBOutcomes == { "crash", "continue" }

InitPcs == { "add_algos", "num_locks", "alloc", "catch", "mutex_init",
             "set_locking", "set_id", "config", "rec_lock", "rec_push" }
SetupPcs == { "add_algos", "num_locks", "alloc", "catch", "mutex_init",
              "set_locking", "set_id", "config" }
TeardownPcs == { "drain_lock", "drain", "unset_locking", "unset_id", "cleanup",
                 "mutex_destroy", "delete", "null" }

(* ----------------------- the digest backend --------------------------- *)
\* values of the pointer mpContext
NULLCTX == "null"
HANDLE == "handle"

\* const unsigned char *input: a null pointer, or the bytes it points to
NULLBUF == [ptr |-> "null", bytes |-> << >>]
Buffer(bytes) == [ptr |-> "buffer", bytes |-> bytes]

\* the EVP_MD objects a digest class passes to the constructor
Types == { "md5", "sha1" }

\* EVP_MD_size(type)
EVP_MD_size(type) == IF type = "md5" THEN 16 ELSE 20

Bytes == 0..1

\* the byte strings of length at most n
ByteStrings(n) == UNION { [1..k -> Bytes] : k \in 0..n }

\* the buffers of at most n bytes a caller may pass, and the null pointer
Buffers(n) == { Buffer(b) : b \in ByteStrings(n) } \cup { NULLBUF }

\* The backend's hash is a block-wise iterated function: a chaining value h,
\* the bytes of the block not yet complete, and the count of bytes taken.
BlockSize == 2
Modulus == 251

IV(type) == IF type = "md5" THEN 1 ELSE 2

RECURSIVE Absorb(_, _)
Absorb(h, bytes) ==
  IF bytes = << >> THEN h
  ELSE Absorb((h * 3 + Head(bytes) + 1) % Modulus, Tail(bytes))

\* one full block
Compress(h, block) == (Absorb(h, block) * 7 + 5) % Modulus

RECURSIVE CompressBlocks(_, _)
CompressBlocks(h, bytes) ==
  IF Len(bytes) < BlockSize THEN h
  ELSE CompressBlocks(Compress(h, SubSeq(bytes, 1, BlockSize)),
                      SubSeq(bytes, BlockSize + 1, Len(bytes)))

\* the memory of an EVP_MD_CTX: no context, and a context just created
NoCtx == [st |-> "none", h |-> 0, buf |-> << >>, n |-> 0]
NewCtx == [st |-> "new", h |-> 0, buf |-> << >>, n |-> 0]

\* EVP_MD_CTX_create(): a new context, or NULL when memory is short
EVP_MD_CTX_create(ok) == IF ok THEN HANDLE ELSE NULLCTX

\* EVP_DigestInit_ex(ctx, type, NULL): the context starts a new digest of the
\* type; when it fails (returns 0) the context is not usable
\* (faulty variant: the context is made usable, its data is kept)
EVP_DigestInit_ex_NoReset(c, type, ok) ==
  IF ok THEN [c EXCEPT !.st = "init"]
        ELSE [st |-> "failed", h |-> 0, buf |-> << >>, n |-> 0]

EVP_DigestInit_ex(c, type, ok) ==
  IF ok THEN [st |-> "init", h |-> IV(type), buf |-> << >>, n |-> 0]
        ELSE [st |-> "failed", h |-> 0, buf |-> << >>, n |-> 0]

\* EVP_DigestUpdate(ctx, data, count) on an initialised context
EVP_DigestUpdate(c, data) ==
  LET all == c.buf \o data
      full == (Len(all) \div BlockSize) * BlockSize
  IN [c EXCEPT !.h = CompressBlocks(c.h, SubSeq(all, 1, full)),
               !.buf = SubSeq(all, full + 1, Len(all)),
               !.n = c.n + Len(data)]

\* EVP_DigestFinal_ex(ctx, md, &size) on an initialised context: the value
\* written to md, and the context it leaves (cleansed)
EVP_DigestFinal_value(c) == (Absorb(c.h, c.buf) * 11 + c.n * 5 + 3) % Modulus

EVP_DigestFinal_ctx(c) == [st |-> "final", h |-> 0, buf |-> << >>, n |-> 0]

\* EVP_MD_CTX_destroy(ctx): frees a context, does nothing for NULL
EVP_MD_CTX_destroy(ptr, c) == IF ptr = HANDLE THEN [c EXCEPT !.st = "freed"] ELSE c

(* -------------------- conditions of OpenSSLDigest ---------------------- *)
\* line 192: if (length)
\* (faulty variant: the backend is called whatever the length)
UpdateCallsBackend_Always(length) == TRUE

\* (faulty variant: a single byte is taken for nothing to hash)
UpdateCallsBackend_MoreThanOne(length) == length > 1

UpdateCallsBackend(length) == length # 0

\* line 193: the bytes EVP_DigestUpdate is given, input[0..length-1]
UpdateBytes(input, length) ==
  IF length = 0 THEN << >> ELSE SubSeq(input.bytes, 1, length)

\* line 184: the pointer the destructor hands to EVP_MD_CTX_destroy
\* (faulty variant: the destructor releases nothing)
DestructorArg_Null == NULLCTX

DestructorArg == mpContext

\* a digest buffer nothing was written to, unsigned int s before it is
\* assigned, no run completed yet, no member function called yet
Unwritten == [written |-> FALSE, val |-> 0]
UNINIT == [init |-> FALSE, val |-> 0]
NoRun == [made |-> FALSE, fed |-> << >>, val |-> 0]
NoCall == [op |-> "none", backend |-> FALSE, null |-> FALSE]

(* ------------------------------- Init --------------------------------- *)
Init ==
  /\ crypto_refs = U32(0)
  /\ ssl_mutexes = NULLPTR
  /\ mutex_array = << >>
  /\ ssl_num_locks = 0
  /\ tids = EmptyBag
  /\ lock = NoThread
  /\ locking_callback = FALSE
  /\ id_callback = FALSE
  /\ lib_init = FALSE
  /\ conf_loaded = FALSE
  /\ err_state = {}
  /\ CRYPTO_num_locks \in 0..MaxLocks
  /\ pc = [t \in Threads |-> "idle"]
  /\ i = [t \in Threads |-> 0]
  /\ held = [t \in Threads |-> 0]
  /\ calls = 0
  /\ lock_depth = [t \in Threads |-> [n \in 0..(CRYPTO_num_locks - 1) |-> 0]]
  /\ proc = "running"
  /\ setupCount = 0
  /\ teardownCount = 0
  /\ period = {}
  /\ draining = [t \in Threads |-> {}]
  /\ epoch = 0
  /\ dobj = [obj |-> "none", mpContext |-> NULLCTX, mpType |-> "md5",
             md_ctx |-> NoCtx]
  /\ dcall = [digest |-> Unwritten, s |-> UNINIT, phase |-> "none",
              fed |-> << >>, nupdates |-> 0, prev_run |-> NoRun,
              last_call |-> NoCall]
  /\ handles = [constructed |-> 0, created |-> 0, released |-> 0]

(* ------------------------------ init() -------------------------------- *)
\* line 74: if (++crypto_refs == 1)
Init_Incr(t) ==
  /\ Running
  /\ pc[t] = "idle"
  /\ calls < MaxCalls
  /\ NoLocksHeld(t)
  /\ crypto_refs' = Inc32(crypto_refs)
  /\ calls' = calls + 1
  /\ pc' = [pc EXCEPT ![t] =
              IF IsFirstRef(crypto_refs') THEN "add_algos" ELSE "rec_lock"]
  /\ period' = IF crypto_refs = U32(0) THEN {t} ELSE period \cup {t}
  /\ UNCHANGED << tablevars, regvars, cbvars, libvars, countvars, i, held,
                  lock_depth, proc, draining >>

\* lines 77-78: OpenSSL_add_all_algorithms(); ERR_load_crypto_strings();
Init_AddAlgorithms(t) ==
  /\ Running
  /\ pc[t] = "add_algos"
  /\ lib_init' = TRUE
  /\ setupCount' = setupCount + 1
  /\ pc' = [pc EXCEPT ![t] = "num_locks"]
  /\ UNCHANGED << crypto_refs, tablevars, regvars, cbvars, conf_loaded,
                  err_state, CRYPTO_num_locks, i, held, calls, lock_depth,
                  proc, teardownCount, ghostvars, epoch,
                  digestvars >>

\* lines 80-81: ssl_num_locks = std::max(CRYPTO_num_locks(), 0);
\*              if (ssl_num_locks > 0)
Init_NumLocks(t) ==
  /\ Running
  /\ pc[t] = "num_locks"
  /\ ssl_num_locks' = NumLocksFor(CRYPTO_num_locks)
  /\ pc' = [pc EXCEPT ![t] = IF ssl_num_locks' > 0 THEN "alloc" ELSE "mutex_init"]
  /\ UNCHANGED << crypto_refs, ssl_mutexes, mutex_array, regvars, cbvars,
                  libvars, i, held, calls, lock_depth, proc, countvars,
                  ghostvars, epoch,
                  digestvars >>

\* lines 82-84: ssl_mutexes = new pthread_mutex_t[ssl_num_locks], which
\* returns uninitialised mutexes or throws
Init_Alloc(t) ==
  /\ Running
  /\ pc[t] = "alloc"
  /\ \E ok \in BOOLEAN :
       IF ok
         THEN /\ ssl_mutexes' = TABLE
              /\ mutex_array' = [k \in 1..ssl_num_locks |-> UninitMutex]
              /\ pc' = [pc EXCEPT ![t] = "mutex_init"]
         ELSE /\ pc' = [pc EXCEPT ![t] = "catch"]
              /\ UNCHANGED << ssl_mutexes, mutex_array >>
  /\ UNCHANGED << crypto_refs, ssl_num_locks, regvars, cbvars, libvars, i, held,
                  calls, lock_depth, proc, countvars, ghostvars, epoch,
                  digestvars >>

\* line 85: ceph_assert_always("can't allocate ..." == nullptr)
Init_AssertAlways(t) ==
  /\ Running
  /\ pc[t] = "catch"
  /\ IF CantAllocateIsNull
       THEN pc' = [pc EXCEPT ![t] = "mutex_init"] /\ proc' = proc
       ELSE proc' = "aborted" /\ pc' = pc
  /\ UNCHANGED << crypto_refs, tablevars, regvars, cbvars, libvars, i, held,
                  calls, lock_depth, countvars, ghostvars, epoch,
                  digestvars >>

\* lines 89-95: one turn of the loop
\*   for (i = 0; i < ssl_num_locks; i++)
\*     pthread_mutex_init(&ssl_mutexes[i], &pthread_mutex_attr);
Init_MutexInit(t) ==
  /\ Running
  /\ pc[t] = "mutex_init"
  /\ IF InitLoopCond(i[t])
       THEN /\ i' = [i EXCEPT ![t] = @ + 1]
            /\ pc' = pc
            /\ IF ValidSlot(i[t])
                 THEN /\ mutex_array' = [mutex_array EXCEPT ![i[t] + 1] =
                                           pthread_mutex_init(MutexAttrType)]
                      /\ proc' = proc
                 ELSE /\ \E o \in UBOutcomes :
                           proc' = IF o = "crash" THEN "crashed" ELSE proc
                      /\ mutex_array' = mutex_array
       ELSE /\ pc' = [pc EXCEPT ![t] = "set_locking"]
            /\ i' = [i EXCEPT ![t] = 0]
            /\ UNCHANGED << mutex_array, proc >>
  /\ UNCHANGED << crypto_refs, ssl_mutexes, ssl_num_locks, regvars, cbvars,
                  libvars, held, calls, lock_depth, countvars, ghostvars,
                  epoch,
                  digestvars >>

\* line 99: CRYPTO_set_locking_callback(&ssl_locking_callback)
Init_SetLockingCallback(t) ==
  /\ Running
  /\ pc[t] = "set_locking"
  /\ locking_callback' = TRUE
  /\ pc' = [pc EXCEPT ![t] = "set_id"]
  /\ UNCHANGED << crypto_refs, tablevars, regvars, id_callback, libvars, i,
                  held, calls, lock_depth, proc, countvars, ghostvars, epoch,
                  digestvars >>

\* line 100: CRYPTO_set_id_callback(&ssl_get_thread_id)
Init_SetIdCallback(t) ==
  /\ Running
  /\ pc[t] = "set_id"
  /\ id_callback' = TRUE
  /\ pc' = [pc EXCEPT ![t] = "config"]
  /\ UNCHANGED << crypto_refs, tablevars, regvars, locking_callback, libvars,
                  i, held, calls, lock_depth, proc, countvars, ghostvars,
                  epoch,
                  digestvars >>

\* line 102: OPENSSL_config(nullptr)
Init_Config(t) ==
  /\ Running
  /\ pc[t] = "config"
  /\ conf_loaded' = TRUE
  /\ pc' = [pc EXCEPT ![t] = "rec_lock"]
  /\ UNCHANGED << crypto_refs, tablevars, regvars, cbvars, lib_init,
                  err_state, CRYPTO_num_locks, i, held, calls, lock_depth,
                  proc, countvars, ghostvars, epoch,
                  digestvars >>

\* line 114: std::lock_guard l(init_records.lock)
Init_RecordLock(t) ==
  /\ Running
  /\ pc[t] = "rec_lock"
  /\ lock = NoThread
  /\ lock' = t
  /\ pc' = [pc EXCEPT ![t] = "rec_push"]
  /\ UNCHANGED << crypto_refs, tablevars, tids, cbvars, libvars, i, held,
                  calls, lock_depth, proc, countvars, ghostvars, epoch,
                  digestvars >>

\* lines 115-118: record the thread id, leave the scope (unlock), return
Init_Record(t) ==
  /\ Running
  /\ pc[t] = "rec_push"
  /\ tids' = RecordTid(t)
  /\ lock' = NoThread
  /\ held' = [held EXCEPT ![t] = @ + 1]
  /\ pc' = [pc EXCEPT ![t] = "idle"]
  /\ UNCHANGED << crypto_refs, tablevars, cbvars, libvars, i, calls,
                  lock_depth, proc, countvars, ghostvars, epoch,
                  digestvars >>

(* ---------------------------- shutdown() ------------------------------ *)
\* lines 124-126: if (--crypto_refs != 0) return;
\* A caller releases a reference it holds, and is not inside the library.
Shutdown_Decr(t) ==
  /\ Running
  /\ pc[t] = "idle"
  /\ held[t] > 0
  /\ NoLocksHeld(t)
  /\ crypto_refs' = Dec32(crypto_refs)
  /\ held' = [held EXCEPT ![t] = @ - 1]
  /\ IF OthersRemain(crypto_refs')
       THEN UNCHANGED << pc, draining >>
       ELSE /\ pc' = [pc EXCEPT ![t] = "drain_lock"]
            /\ draining' = [draining EXCEPT ![t] = period]
  /\ UNCHANGED << tablevars, regvars, cbvars, libvars, countvars, i, calls,
                  lock_depth, proc, period >>

\* lines 124-126, called while crypto_refs is 0 by a caller that holds no
\* reference: shutdown() without an init() before it
Shutdown_DecrUnheld(t) ==
  /\ Running
  /\ pc[t] = "idle"
  /\ held[t] = 0
  /\ crypto_refs = U32(0)
  /\ crypto_refs' = Dec32(crypto_refs)
  /\ IF OthersRemain(crypto_refs')
       THEN UNCHANGED << pc, draining >>
       ELSE /\ pc' = [pc EXCEPT ![t] = "drain_lock"]
            /\ draining' = [draining EXCEPT ![t] = period]
  /\ UNCHANGED << tablevars, regvars, cbvars, libvars, countvars, i, held,
                  calls, lock_depth, proc, period, epoch, digestvars >>

\* line 131: std::lock_guard l(init_records.lock)
Shutdown_DrainLock(t) ==
  /\ Running
  /\ pc[t] = "drain_lock"
  /\ lock = NoThread
  /\ lock' = t
  /\ pc' = [pc EXCEPT ![t] = "drain"]
  /\ UNCHANGED << crypto_refs, tablevars, tids, cbvars, libvars, i, held,
                  calls, lock_depth, proc, countvars, ghostvars, epoch,
                  digestvars >>

\* lines 139-142: for (tid : init_records.tids) ERR_remove_thread_state(&tid);
\* then the scope ends (unlock). The registry itself is left as it is.
Shutdown_Drain(t) ==
  /\ Running
  /\ pc[t] = "drain"
  /\ err_state' = err_state \ DrainedThreadStates(t)
  /\ lock' = NoThread
  /\ pc' = [pc EXCEPT ![t] = "unset_locking"]
  /\ UNCHANGED << crypto_refs, tablevars, tids, cbvars, lib_init, conf_loaded,
                  CRYPTO_num_locks, i, held, calls, lock_depth, proc,
                  countvars, ghostvars, epoch,
                  digestvars >>

\* line 149: CRYPTO_set_locking_callback(nullptr)
Shutdown_UnsetLockingCallback(t) ==
  /\ Running
  /\ pc[t] = "unset_locking"
  /\ locking_callback' = FALSE
  /\ pc' = [pc EXCEPT ![t] = "unset_id"]
  /\ UNCHANGED << crypto_refs, tablevars, regvars, id_callback, libvars, i,
                  held, calls, lock_depth, proc, countvars, ghostvars, epoch,
                  digestvars >>

\* line 150: CRYPTO_set_id_callback(nullptr)
Shutdown_UnsetIdCallback(t) ==
  /\ Running
  /\ pc[t] = "unset_id"
  /\ id_callback' = FALSE
  /\ pc' = [pc EXCEPT ![t] = "cleanup"]
  /\ UNCHANGED << crypto_refs, tablevars, regvars, locking_callback, libvars,
                  i, held, calls, lock_depth, proc, countvars, ghostvars,
                  epoch,
                  digestvars >>

\* lines 151-156: ENGINE_cleanup(); CONF_modules_free();
\* CONF_modules_unload(1); ERR_free_strings(); EVP_cleanup();
\* CRYPTO_cleanup_all_ex_data();
Shutdown_Cleanup(t) ==
  /\ Running
  /\ pc[t] = "cleanup"
  /\ lib_init' = FALSE
  /\ conf_loaded' = FALSE
  /\ teardownCount' = teardownCount + 1
  /\ pc' = [pc EXCEPT ![t] = "mutex_destroy"]
  /\ UNCHANGED << crypto_refs, tablevars, regvars, cbvars, err_state,
                  CRYPTO_num_locks, i, held, calls, lock_depth, proc, setupCount,
                  ghostvars, epoch,
                  digestvars >>

\* lines 158-160: one turn of the loop
\*   for (i = 0; i < ssl_num_locks; i++) pthread_mutex_destroy(&ssl_mutexes[i]);
\* Destroying anything but an initialised, unlocked mutex is undefined.
Shutdown_MutexDestroy(t) ==
  /\ Running
  /\ pc[t] = "mutex_destroy"
  /\ IF DestroyLoopCond(i[t])
       THEN /\ i' = [i EXCEPT ![t] = @ + 1]
            /\ pc' = pc
            /\ IF /\ ValidSlot(i[t])
                  /\ mutex_array[i[t] + 1].st = "init"
                  /\ mutex_array[i[t] + 1].owner = NoThread
                 THEN /\ mutex_array' = [mutex_array EXCEPT ![i[t] + 1] =
                                           [@ EXCEPT !.st = "destroyed"]]
                      /\ proc' = proc
                 ELSE /\ \E o \in UBOutcomes :
                           proc' = IF o = "crash" THEN "crashed" ELSE proc
                      /\ mutex_array' = mutex_array
       ELSE /\ pc' = [pc EXCEPT ![t] = "delete"]
            /\ i' = [i EXCEPT ![t] = 0]
            /\ UNCHANGED << mutex_array, proc >>
  /\ UNCHANGED << crypto_refs, ssl_mutexes, ssl_num_locks, regvars, cbvars,
                  libvars, held, calls, lock_depth, countvars, ghostvars,
                  epoch,
                  digestvars >>

\* line 161: delete[] ssl_mutexes (of a null pointer: nothing; of a pointer
\* already deleted: undefined)
Shutdown_Delete(t) ==
  /\ Running
  /\ pc[t] = "delete"
  /\ pc' = [pc EXCEPT ![t] = "null"]
  /\ IF ssl_mutexes = TABLE
       THEN ssl_mutexes' = DANGLING /\ mutex_array' = << >> /\ proc' = proc
       ELSE IF ssl_mutexes = NULLPTR
         THEN UNCHANGED << ssl_mutexes, mutex_array, proc >>
         ELSE /\ \E o \in UBOutcomes :
                   proc' = IF o = "crash" THEN "crashed" ELSE proc
              /\ UNCHANGED << ssl_mutexes, mutex_array >>
  /\ UNCHANGED << crypto_refs, ssl_num_locks, regvars, cbvars, libvars, i,
                  held, calls, lock_depth, countvars, ghostvars, epoch,
                  digestvars >>

\* line 162: ssl_mutexes = nullptr; and return. An array the pointer still
\* held is no longer reachable.
Shutdown_Null(t) ==
  /\ Running
  /\ pc[t] = "null"
  /\ ssl_mutexes' = ClearedPointer
  /\ mutex_array' = << >>
  /\ pc' = [pc EXCEPT ![t] = "idle"]
  /\ draining' = [draining EXCEPT ![t] = {}]
  /\ UNCHANGED << crypto_refs, ssl_num_locks, regvars, cbvars, libvars, i,
                  held, calls, lock_depth, proc, countvars, period, epoch,
                  digestvars >>

(* ---------------------- the library, in use --------------------------- *)
\* lines 44-56: ssl_locking_callback(mode, mutex_num, file, line) on thread t
ssl_locking_callback(t, mode, mutex_num) ==
  IF ValidSlot(mutex_num) /\ mutex_array[mutex_num + 1].st = "init"
    THEN /\ proc' = proc
         /\ IF IsLockMode(mode)
              THEN /\ pthread_mutex_lockable(mutex_array[mutex_num + 1], t)
                   /\ mutex_array' = [mutex_array EXCEPT ![mutex_num + 1] =
                                        pthread_mutex_lock(@, t)]
                   /\ lock_depth' = [lock_depth EXCEPT ![t][mutex_num] = @ + 1]
              ELSE /\ mutex_array' = [mutex_array EXCEPT ![mutex_num + 1] =
                                        pthread_mutex_unlock(@, t)]
                   /\ lock_depth' = [lock_depth EXCEPT ![t][mutex_num] =
                                       IF @ > 0 THEN @ - 1 ELSE 0]
    ELSE /\ \E o \in UBOutcomes :
              proc' = IF o = "crash" THEN "crashed" ELSE proc
         /\ UNCHANGED << mutex_array, lock_depth >>

\* CRYPTO_lock(mode, type): a thread that holds a reference is inside the
\* library, which calls the installed locking callback on one of its slots
CRYPTO_lock(t) ==
  /\ Running
  /\ pc[t] = "idle"
  /\ held[t] > 0
  /\ locking_callback
  /\ \E mode \in Modes, n \in 0..(CRYPTO_num_locks - 1) :
       /\ IsLockMode(mode) => lock_depth[t][n] < MaxDepth
       /\ ssl_locking_callback(t, mode, n)
  /\ UNCHANGED << crypto_refs, ssl_mutexes, ssl_num_locks, regvars, cbvars,
                  libvars, pc, i, held, calls, countvars, ghostvars, epoch,
                  digestvars >>

\* ERR_get_state(): the library allocates the calling thread's error state
ERR_get_state(t) ==
  /\ Running
  /\ pc[t] = "idle"
  /\ held[t] > 0
  /\ CRYPTO_THREADID_current(t) \notin err_state
  /\ err_state' = err_state \cup { CRYPTO_THREADID_current(t) }
  /\ UNCHANGED << crypto_refs, tablevars, regvars, cbvars, lib_init,
                  conf_loaded, CRYPTO_num_locks, pc, i, held, calls,
                  lock_depth, proc, countvars, ghostvars, epoch,
                  digestvars >>

(* ------------------ OpenSSLDigest member functions -------------------- *)
\* everything of init() / shutdown() but the process itself
lifevars == << crypto_refs, tablevars, regvars, cbvars, libvars, pc, i, held,
               calls, lock_depth, countvars, ghostvars, epoch >>

\* lines 187-189: EVP_DigestInit_ex(mpContext, mpType, NULL); what the call
\* returns is not looked at
RestartCtx(ptr, c, type, ok) ==
  IF ptr = HANDLE THEN EVP_DigestInit_ex(c, type, ok) ELSE c

\* the backend given a null context: the process faults, or goes on
NullCtxFault(ptr, o) ==
  IF ptr = NULLCTX /\ o = "crash" THEN "crashed" ELSE proc

Called(op, backend, null) == [op |-> op, backend |-> backend, null |-> null]

\* lines 177-181: OpenSSLDigest(const EVP_MD * _type)
\*   : mpContext(EVP_MD_CTX_create()), mpType(_type) { this->Restart(); }
OpenSSLDigest_ctor(_type) ==
  /\ Running
  /\ obj \in { "none", "destroyed" }
  /\ constructed < MaxObjects
  /\ \E alloc_ok \in BOOLEAN, init_ok \in BOOLEAN, o \in UBOutcomes :
       LET ptr == EVP_MD_CTX_create(alloc_ok) IN
         /\ dobj' = [obj |-> "alive",
                     mpContext |-> ptr,
                     mpType |-> _type,
                     md_ctx |-> RestartCtx(ptr,
                                           IF alloc_ok THEN NewCtx ELSE NoCtx,
                                           _type, init_ok)]
         /\ proc' = NullCtxFault(ptr, o)
         /\ handles' = [handles EXCEPT
                          !.constructed = @ + 1,
                          !.created = @ + (IF alloc_ok THEN 1 ELSE 0)]
  /\ dcall' = [digest |-> Unwritten, s |-> UNINIT, phase |-> "ready",
               fed |-> << >>, nupdates |-> 0, prev_run |-> NoRun,
               last_call |-> Called("OpenSSLDigest", TRUE, FALSE)]
  /\ UNCHANGED lifevars

\* lines 187-189: Restart()
Restart ==
  /\ Running
  /\ obj = "alive"
  /\ \E init_ok \in BOOLEAN, o \in UBOutcomes :
       /\ dobj' = [dobj EXCEPT
                     !.md_ctx = RestartCtx(mpContext, md_ctx, mpType, init_ok)]
       /\ proc' = NullCtxFault(mpContext, o)
  /\ dcall' = [dcall EXCEPT
                 !.phase = "ready",
                 !.prev_run = IF phase = "finalized" /\ s.init
                                THEN [made |-> TRUE, fed |-> fed,
                                      val |-> digest.val]
                                ELSE @,
                 !.fed = << >>,
                 !.nupdates = 0,
                 !.last_call = Called("Restart", TRUE, FALSE)]
  /\ UNCHANGED << handles, lifevars >>

\* lines 191-195: Update(const unsigned char *input, size_t length)
Update(input, length) ==
  /\ Running
  /\ obj = "alive"
  /\ phase = "ready"
  /\ nupdates < MaxUpdates
  /\ IF UpdateCallsBackend(length)
       THEN \E o \in UBOutcomes :
              /\ dobj' = [dobj EXCEPT
                            !.md_ctx =
                               IF md_ctx.st = "init"
                                 THEN EVP_DigestUpdate(
                                        md_ctx, UpdateBytes(input, length))
                                 ELSE md_ctx]
              /\ proc' = IF md_ctx.st # "init" /\ o = "crash"
                           THEN "crashed" ELSE proc
       ELSE UNCHANGED << dobj, proc >>
  /\ dcall' = [dcall EXCEPT
                 !.fed = fed \o UpdateBytes(input, length),
                 !.nupdates = @ + 1,
                 !.last_call = Called("Update", UpdateCallsBackend(length),
                                      input = NULLBUF)]
  /\ UNCHANGED << handles, lifevars >>

\* lines 197-200: Final(unsigned char *digest)
\*   { unsigned int s; EVP_DigestFinal_ex(mpContext, digest, &s); }
Final ==
  /\ Running
  /\ obj = "alive"
  /\ phase = "ready"
  /\ \E o \in UBOutcomes :
       IF md_ctx.st = "init"
         THEN /\ dcall' = [dcall EXCEPT
                             !.digest = [written |-> TRUE,
                                         val |-> EVP_DigestFinal_value(md_ctx)],
                             !.s = [init |-> TRUE, val |-> EVP_MD_size(mpType)],
                             !.phase = "finalized",
                             !.last_call = Called("Final", TRUE, FALSE)]
              /\ dobj' = [dobj EXCEPT !.md_ctx = EVP_DigestFinal_ctx(md_ctx)]
              /\ proc' = proc
         ELSE /\ dcall' = [dcall EXCEPT
                             !.digest = Unwritten,
                             !.s = UNINIT,
                             !.phase = "finalized",
                             !.last_call = Called("Final", TRUE, FALSE)]
              /\ dobj' = dobj
              /\ proc' = IF o = "crash" THEN "crashed" ELSE proc
  /\ UNCHANGED << handles, lifevars >>

\* lines 183-185: ~OpenSSLDigest() { EVP_MD_CTX_destroy(mpContext); }
OpenSSLDigest_dtor ==
  /\ Running
  /\ obj = "alive"
  /\ dobj' = [dobj EXCEPT
                !.obj = "destroyed",
                !.md_ctx = EVP_MD_CTX_destroy(DestructorArg, md_ctx)]
  /\ handles' = [handles EXCEPT
                   !.released = @ + (IF DestructorArg = HANDLE THEN 1 ELSE 0)]
  /\ dcall' = [dcall EXCEPT
                 !.phase = "none",
                 !.fed = << >>,
                 !.nupdates = 0,
                 !.prev_run = NoRun,
                 !.last_call = Called("~OpenSSLDigest", TRUE, FALSE)]
  /\ UNCHANGED << proc, lifevars >>

(* --------------------------- specifications --------------------------- *)
\* ceph::crypto::init() and ceph::crypto::shutdown(bool), called by any
\* thread at any time (each release matches an earlier acquire of the caller)
crypto_init(t) ==
  Init_Incr(t) /\ UNCHANGED << epoch, digestvars >>

crypto_shutdown(t) ==
  Shutdown_Decr(t) /\ UNCHANGED << epoch, digestvars >>

\* the statements after the first one of each call
CallStep(t) ==
  \/ Init_AddAlgorithms(t)
  \/ Init_NumLocks(t)
  \/ Init_Alloc(t)
  \/ Init_AssertAlways(t)
  \/ Init_MutexInit(t)
  \/ Init_SetLockingCallback(t)
  \/ Init_SetIdCallback(t)
  \/ Init_Config(t)
  \/ Init_RecordLock(t)
  \/ Init_Record(t)
  \/ Shutdown_DrainLock(t)
  \/ Shutdown_Drain(t)
  \/ Shutdown_UnsetLockingCallback(t)
  \/ Shutdown_UnsetIdCallback(t)
  \/ Shutdown_Cleanup(t)
  \/ Shutdown_MutexDestroy(t)
  \/ Shutdown_Delete(t)
  \/ Shutdown_Null(t)

\* the statements of the calls, and the library's use
Step(t) ==
  \/ CallStep(t)
  \/ CRYPTO_lock(t)
  \/ ERR_get_state(t)

Next == \E t \in Threads : crypto_init(t) \/ crypto_shutdown(t) \/ Step(t)

Spec == Init /\ [][Next]_vars

\* The batched callers: a batch of acquire() calls, all returned before the
\* first release() of the batch starts, and all released before the next
\* batch starts. epoch is odd while a batch acquires, even while it releases.
AllReturned == \A u \in Threads : pc[u] = "idle"
AllReleased == AllReturned /\ \A u \in Threads : held[u] = 0

batch_init(t) ==
  /\ epoch % 2 = 1 \/ AllReleased
  /\ epoch' = IF epoch % 2 = 1 THEN epoch ELSE epoch + 1
  /\ Init_Incr(t)
  /\ UNCHANGED digestvars

batch_shutdown(t) ==
  /\ epoch % 2 = 0 \/ AllReturned
  /\ epoch' = IF epoch % 2 = 0 THEN epoch ELSE epoch + 1
  /\ Shutdown_Decr(t)
  /\ UNCHANGED digestvars

NextBatch == \E t \in Threads : batch_init(t) \/ batch_shutdown(t) \/ Step(t)

SpecBatch == Init /\ [][NextBatch]_vars

\* Callers that may also call shutdown() while crypto_refs is 0 and they hold
\* no reference; the library is not used.
NextMisuse ==
  \E t \in Threads :
    \/ crypto_init(t)
    \/ crypto_shutdown(t)
    \/ Shutdown_DecrUnheld(t)
    \/ CallStep(t)

SpecMisuse == Init /\ [][NextMisuse]_vars

\* One OpenSSLDigest object at a time, used by its owner: Update() and Final()
\* on a context the owner takes for ready, Restart() at any point.
Construct == \E type \in Types : OpenSSLDigest_ctor(type)

\* Update() with any buffer (or the null pointer) and any length within it
UpdateCall ==
  \E input \in Buffers(MaxFed - Len(fed)) :
    \E length \in 0..Len(input.bytes) : Update(input, length)

NextDigest ==
  \/ Construct
  \/ Restart
  \/ UpdateCall
  \/ Final
  \/ OpenSSLDigest_dtor

\* the digest objects do not depend on the lock table's size
InitDigest == Init /\ CRYPTO_num_locks = 0

SpecDigest == InitDigest /\ [][NextDigest]_vars

(* ------------------------- shared predicates -------------------------- *)
\* the lock table is allocated with the required size, every slot initialised
LockTableReady ==
  /\ ssl_num_locks = CRYPTO_num_locks
  /\ Len(mutex_array) = CRYPTO_num_locks
  /\ CRYPTO_num_locks > 0 => ssl_mutexes = TABLE
  /\ \A k \in 1..Len(mutex_array) : mutex_array[k].st = "init"

CallbacksInstalled == locking_callback /\ id_callback

\* the one-time setup is complete and nothing of it has been torn down
SetupComplete == LockTableReady /\ CallbacksInstalled

LibraryLive == lib_init /\ conf_loaded /\ SetupComplete

\* the lock table is in the empty state, the callbacks are not installed
TornDown ==
  /\ ssl_mutexes = NULLPTR
  /\ mutex_array = << >>
  /\ ~locking_callback
  /\ ~id_callback

Batches == (epoch + 1) \div 2

(* -------------------------------- C1 ---------------------------------- *)
\* C1: when a batch of N acquire() calls, made concurrently, has been followed
\* by its N release() calls, the one-time setup has run exactly once for the
\* batch, the shutdown sequence exactly once, and crypto_refs is zero.
C1_SetupAndShutdownOncePerBatch ==
  (Running /\ AllReleased) =>
     /\ crypto_refs = U32(0)
     /\ setupCount = Batches
     /\ teardownCount = Batches

\* a batch of MaxCalls acquires by two threads, fully released
C1_Witness ==
  /\ Running
  /\ AllReleased
  /\ epoch = 2
  /\ calls = MaxCalls
  /\ \E t, u \in Threads : t # u /\ { t, u } \subseteq period
  /\ setupCount = 1
  /\ teardownCount = 1

(* -------------------------------- C2 ---------------------------------- *)
\* C2: whenever an acquire() has returned and its release() has not started,
\* the one-time setup is complete (table allocated and initialised, both
\* callbacks installed).
C2_HeldImpliesSetupComplete ==
  Running => \A t \in Threads : held[t] > 0 => SetupComplete

(* -------------------------------- C3 ---------------------------------- *)
\* C3: the library is live iff crypto_refs > 0, in every state a caller can
\* observe: one in which some caller holds a reference its acquire() returned,
\* or in which no call is in progress.
C3_LiveIffRefs ==
  (Running /\ (AllReturned \/ \E t \in Threads : held[t] > 0)) =>
     (LibraryLive <=> crypto_refs # U32(0))

(* -------------------------------- C4 ---------------------------------- *)
\* C4: once the draining release() has completed (no call in progress,
\* crypto_refs zero), init_records.tids is empty.
C4_RegistryEmptyAfterDrain ==
  (Running /\ AllReturned /\ crypto_refs = U32(0)) => tids = EmptyBag

(* -------------------------------- C5 ---------------------------------- *)
\* C5: init() appends the caller's thread id while it holds
\* init_records.lock and before it returns, so every caller holding a
\* reference is recorded; and when the draining shutdown() iterates the
\* registry, under the lock, every thread that acquired during the period it
\* drains has an entry.
C5_AcquirersRecorded ==
  /\ \A t \in Threads : pc[t] = "rec_push" => lock = t
  /\ \A t \in Threads :
       held[t] > 0 => CRYPTO_THREADID_current(t) \in BagToSet(tids)
  /\ \A d \in Threads :
       pc[d] = "drain" =>
         /\ lock = d
         /\ \A t \in draining[d] : CRYPTO_THREADID_current(t) \in BagToSet(tids)

\* the drain iterates a registry in which every thread acquired, one of them
\* without performing the setup
C5_Witness ==
  \E d \in Threads :
    /\ pc[d] = "drain"
    /\ draining[d] = Threads
    /\ setupCount = 1
    /\ BagCardinality(tids) >= NumThreads

(* -------------------------------- C6 ---------------------------------- *)
\* C6: the lock table exists only between a 0->1 acquire() and the end of the
\* teardown of the 1->0 release(); after a draining release() completes the
\* table is empty and both callbacks are uninstalled; and the acquire() that
\* follows sets everything up again: a table of the required size, every
\* mutex initialised, both callbacks installed.
C6_TableLifecycle ==
  Running =>
    /\ ssl_mutexes = TABLE =>
         (crypto_refs # U32(0) \/ \E t \in Threads : pc[t] \in TeardownPcs)
    /\ AllReleased => TornDown
    /\ (AllReturned /\ crypto_refs # U32(0)) => SetupComplete

\* the second batch's acquire has returned, after a full teardown
C6_Witness ==
  /\ Running
  /\ AllReturned
  /\ crypto_refs # U32(0)
  /\ teardownCount = 1
  /\ setupCount = 2
  /\ CRYPTO_num_locks = MaxLocks
  /\ SetupComplete

(* -------------------------------- C7 ---------------------------------- *)
\* C7: once the one-time setup has completed (and until the teardown),
\* ssl_num_locks is the count CRYPTO_num_locks() reports and every slot
\* 0..ssl_num_locks-1 holds an initialised mutex.
SetupDone ==
  /\ setupCount > teardownCount
  /\ \A t \in Threads :
       pc[t] \notin { "add_algos", "num_locks", "alloc", "catch", "mutex_init" }

C7_TableSizeAndSlots ==
  (Running /\ SetupDone) =>
     /\ ssl_num_locks = CRYPTO_num_locks
     /\ Len(mutex_array) = ssl_num_locks
     /\ \A k \in 0..(ssl_num_locks - 1) :
          ValidSlot(k) /\ mutex_array[k + 1].st = "init"

C7_Witness ==
  /\ Running
  /\ SetupDone
  /\ CRYPTO_num_locks = MaxLocks
  /\ \E t \in Threads : pc[t] = "set_locking"

(* -------------------------------- C8 ---------------------------------- *)
LockModes == { CRYPTO_LOCK + CRYPTO_READ, CRYPTO_LOCK + CRYPTO_WRITE }
UnlockModes == { CRYPTO_UNLOCK + CRYPTO_READ, CRYPTO_UNLOCK + CRYPTO_WRITE }

\* C8: on every initialised slot the locking callback, called with the lock
\* flag, takes the slot's mutex (one more level of ownership) and can do so
\* exactly when the mutex is free or already owned by the caller; called
\* without the flag by the owner it gives up one level, and the mutex is free
\* for other threads only when every level has been given up.
C8_CallbackLocksRecursively ==
  Running =>
    \A n \in 0..(Len(mutex_array) - 1) :
      (ValidSlot(n) /\ mutex_array[n + 1].st = "init") =>
        LET m == mutex_array[n + 1] IN
          /\ m.owner = NoThread <=> m.count = 0
          /\ \A t \in Threads :
               /\ \A mode \in LockModes :
                    /\ (ENABLED ssl_locking_callback(t, mode, n))
                         <=> m.owner \in { NoThread, t }
                    /\ ~ ENABLED (/\ ssl_locking_callback(t, mode, n)
                                  /\ mutex_array'[n + 1] #
                                       [m EXCEPT !.owner = t, !.count = m.count + 1])
               /\ \A mode \in UnlockModes :
                    m.owner = t =>
                      ~ ENABLED (/\ ssl_locking_callback(t, mode, n)
                                 /\ mutex_array'[n + 1] #
                                      [m EXCEPT !.count = m.count - 1,
                                                !.owner = IF m.count = 1
                                                            THEN NoThread ELSE t])

\* a thread has locked one slot twice
C8_Witness ==
  \E n \in 0..(Len(mutex_array) - 1) :
    /\ ValidSlot(n)
    /\ mutex_array[n + 1].st = "init"
    /\ mutex_array[n + 1].owner # NoThread
    /\ mutex_array[n + 1].count = 2

(* -------------------------------- C9 ---------------------------------- *)
\* C9: a shutdown() whose decrement leaves crypto_refs nonzero returns at once
\* and changes nothing but crypto_refs (and the caller's own reference).
C9_NonDrainingReleaseFrame ==
  [][ ((\E t \in Threads : held'[t] < held[t]) /\ crypto_refs' # U32(0)) =>
        /\ pc' = pc
        /\ UNCHANGED << tablevars, regvars, cbvars, libvars, countvars, proc >>
    ]_vars

\* one caller has released while the other still holds its reference, in the
\* first live period
C9_Witness ==
  \E t, u \in Threads :
    /\ t # u
    /\ t \in period /\ held[t] = 0 /\ pc[t] = "idle"
    /\ held[u] = 1
    /\ calls = 2
    /\ crypto_refs = U32(1)
    /\ setupCount = 1
    /\ teardownCount = 0
    /\ \A w \in Threads : pc[w] \notin TeardownPcs

(* -------------------------------- C10 --------------------------------- *)
\* C10: a thread whose allocation of the lock table failed has one way on,
\* the failing assertion, which aborts the process: it cannot reach the mutex
\* initialisation or the installation of the callbacks.
C10_AllocFailureAborts ==
  \A t \in Threads :
    (Running /\ pc[t] = "catch") =>
      /\ ENABLED (Init_AssertAlways(t) /\ proc' = "aborted" /\ pc' = pc)
      /\ ~ ENABLED (Init_AssertAlways(t) /\ (proc' # "aborted" \/ pc' # pc))
      /\ ~ ENABLED (Step(t) /\ pc'[t] # "catch")

C10_Witness ==
  /\ proc = "aborted"
  /\ \E t \in Threads : pc[t] = "catch"
  /\ ~locking_callback
(* -------------------------------- C11 --------------------------------- *)
\* C11: Update(input, 0) is a no-op for every input pointer, the null pointer
\* included, and whatever state the context is in: the call is possible, it
\* does not call the backend (so the pointer is never handed on or read), and
\* it leaves the context, the digest buffer and the process as they were.
C11_ZeroLengthUpdateIsNoOp ==
  (Running /\ obj = "alive" /\ phase = "ready" /\ nupdates < MaxUpdates) =>
    \A input \in Buffers(MaxFed) :
      /\ ENABLED Update(input, 0)
      /\ ~ ENABLED (/\ Update(input, 0)
                    /\ \/ last_call'.backend
                       \/ md_ctx' # md_ctx
                       \/ fed' # fed
                       \/ digest' # digest
                       \/ proc' # proc)

\* Update(nullptr, 0) has just returned, on a context holding partial input
C11_Witness ==
  /\ Running
  /\ last_call = Called("Update", FALSE, TRUE)
  /\ md_ctx.st = "init"
  /\ md_ctx.n > 0
  /\ fed # << >>

(* -------------------------------- C12 --------------------------------- *)
\* a context of the type, just initialised, given the whole of S by one
\* Update() call and then Final()
OneShot(type, S) ==
  LET fresh == EVP_DigestInit_ex(NewCtx, type, TRUE)
  IN EVP_DigestFinal_value(
       IF UpdateCallsBackend(Len(S))
         THEN EVP_DigestUpdate(fresh, UpdateBytes(Buffer(S), Len(S)))
         ELSE fresh)

\* C12: whatever the chunks (empty ones included) in which successive
\* Update() calls passed the bytes S, Final() writes the digest that one
\* Update() call with the whole of S gives (the backend working).
C12_ChunkedUpdateEquivalence ==
  (Running /\ obj = "alive" /\ phase = "finalized" /\ s.init) =>
     /\ digest.written
     /\ digest.val = OneShot(mpType, fed)

\* MaxFed bytes were passed in MaxUpdates calls and finalised
C12_Witness ==
  /\ Running
  /\ obj = "alive"
  /\ phase = "finalized"
  /\ s.init
  /\ Len(fed) = MaxFed
  /\ nupdates = MaxUpdates

(* -------------------------------- C13 --------------------------------- *)
\* C13: a run (Update() calls, then Final()) made after Restart() with the
\* input of the run completed before gives the digest that run gave, whatever
\* was passed and discarded by Restart() in between.
C13_RestartDiscardsState ==
  (/\ Running /\ obj = "alive" /\ phase = "finalized" /\ s.init
   /\ prev_run.made /\ prev_run.fed = fed) =>
     digest.val = prev_run.val

\* the second of two completed runs with the same MaxFed bytes
C13_Witness ==
  /\ Running
  /\ obj = "alive"
  /\ phase = "finalized"
  /\ s.init
  /\ prev_run.made
  /\ prev_run.fed = fed
  /\ Len(fed) = MaxFed
  /\ last_call.op = "Final"

(* -------------------------------- C14 --------------------------------- *)
\* C14: when Final() has returned, the backend has reported a size, that size
\* is the digest length of the configured type, and the digest was written.
C14_FinalValidatesSize ==
  (Running /\ obj = "alive" /\ last_call.op = "Final") =>
     /\ s.init
     /\ s.val = EVP_MD_size(mpType)
     /\ digest.written

(* -------------------------------- C15 --------------------------------- *)
\* C15: there is no state in which the process runs on and the caller takes
\* the context for ready after EVP_DigestInit_ex failed in Restart() (the one
\* of the constructor included).
C15_RestartFailureIsFatal ==
  (Running /\ obj = "alive" /\ phase = "ready") => md_ctx.st # "failed"

(* -------------------------------- C16 --------------------------------- *)
\* C16: a handle is released only by the destructor of the object that created
\* it, and exactly once: while the object lives its handle is not released,
\* once it is destroyed every handle created has been released once; an
\* object whose handle creation failed has no handle and releases none.
C16_HandleReleasedOnce ==
  /\ released <= created
  /\ obj \in { "none", "destroyed" } =>
       /\ released = created
       /\ md_ctx.st \in { "none", "freed" }
  /\ obj = "alive" =>
       /\ created = released + (IF mpContext = HANDLE THEN 1 ELSE 0)
       /\ mpContext = HANDLE => md_ctx.st \in { "init", "failed", "final" }
       /\ mpContext = NULLCTX => md_ctx.st = "none"

\* every object allowed has been constructed and destroyed, one of them
\* without a handle, one with a handle that was used
C16_Witness ==
  /\ Running
  /\ obj = "destroyed"
  /\ constructed = MaxObjects
  /\ created >= 1
  /\ created < constructed
  /\ released = created
  /\ digest.written
(* -------------------------------- C17 --------------------------------- *)
\* C17: at any time at most one thread is inside the one-time setup of init()
\* or the teardown of shutdown(): no setup runs while a teardown runs, no two
\* teardowns and no two setups run together.
C17_SetupTeardownExclusive ==
  Running =>
    Cardinality({ t \in Threads : pc[t] \in SetupPcs \cup TeardownPcs }) <= 1

(* -------------------------------- C18 --------------------------------- *)
\* C18: whenever the locking callback is installed, the lock table is
\* allocated and every slot the library may pass to the callback
\* (0..CRYPTO_num_locks()-1) holds an initialised mutex that is not destroyed.
C18_CallbackImpliesTableReady ==
  (Running /\ locking_callback) =>
     \A n \in 0..(CRYPTO_num_locks - 1) :
       ValidSlot(n) /\ mutex_array[n + 1].st = "init"

(* -------------------------------- C19 --------------------------------- *)
\* thread t leaves the statement at position p in this step
Leaves(t, p) == pc[t] = p /\ pc'[t] # p

\* C19: the draining shutdown() goes through its steps in this order, each
\* step taken only from its place in the order: (1) under init_records.lock
\* the thread state of every recorded id is released, nothing else torn down;
\* (2) the locking callback, then the id callback, are uninstalled; (3) the
\* library is shut down; (4) the mutexes are destroyed, then the table is
\* freed. So a mutex is destroyed, and the table freed, only by a thread that
\* has uninstalled the callbacks before, and a callback is uninstalled only
\* by a thread that has released the thread states before.
C19_TeardownOrder ==
  [][ /\ \A t \in Threads :
           /\ Leaves(t, "drain_lock") =>
                /\ pc'[t] = "drain"
                /\ lock' = t
                /\ UNCHANGED << err_state, cbvars, tablevars, lib_init >>
           /\ Leaves(t, "drain") =>
                /\ pc'[t] = "unset_locking"
                /\ lock = t
                /\ err_state' \cap BagToSet(tids) = {}
                /\ UNCHANGED << cbvars, tablevars, lib_init >>
           /\ Leaves(t, "unset_locking") =>
                /\ pc'[t] = "unset_id"
                /\ ~locking_callback'
                /\ UNCHANGED << tablevars, lib_init >>
           /\ Leaves(t, "unset_id") =>
                /\ pc'[t] = "cleanup"
                /\ ~id_callback'
                /\ UNCHANGED << tablevars, lib_init >>
           /\ Leaves(t, "cleanup") =>
                /\ pc'[t] = "mutex_destroy"
                /\ ~lib_init'
                /\ teardownCount' = teardownCount + 1
                /\ UNCHANGED tablevars
           /\ Leaves(t, "mutex_destroy") => pc'[t] = "delete"
           /\ Leaves(t, "delete") => pc'[t] = "null"
           /\ Leaves(t, "null") => pc'[t] = "idle"
      /\ (\E k \in 1..Len(mutex_array) :
            /\ k <= Len(mutex_array')
            /\ mutex_array[k].st = "init"
            /\ mutex_array'[k].st = "destroyed") =>
           \E t \in Threads : pc[t] = "mutex_destroy"
      /\ (ssl_mutexes = TABLE /\ ssl_mutexes' = DANGLING) =>
           \E t \in Threads : pc[t] = "delete"
      /\ (locking_callback /\ ~locking_callback') =>
           \E t \in Threads : pc[t] = "unset_locking"
      /\ (id_callback /\ ~id_callback') =>
           \E t \in Threads : pc[t] = "unset_id"
    ]_vars

\* the last mutex of a full table has been destroyed, the table not yet
\* freed, after the thread states of two recorded threads were released
C19_Witness ==
  /\ Running
  /\ CRYPTO_num_locks = MaxLocks
  /\ \E t \in Threads : pc[t] = "delete"
  /\ \A k \in 1..Len(mutex_array) : mutex_array[k].st = "destroyed"
  /\ Len(mutex_array) = MaxLocks
  /\ Cardinality(BagToSet(tids)) >= 2
  /\ teardownCount = 1

(* -------------------------------- C20 --------------------------------- *)
\* 2^32 - 1
UINT32_MAX == [hi |-> LimbBase - 1, lo |-> LimbBase - 1]

\* C20: shutdown() called while crypto_refs is 0 is possible, wraps the
\* counter to 2^32-1 and returns: no teardown, no fault, nothing else changed.
\* init() called at 2^32-1 brings the counter to 0 and skips the one-time
\* setup; as long as no setup has run, the library is not initialised, whoever
\* holds a reference.
C20_ReleaseAtZeroWraps ==
  Running =>
    /\ \A t \in Threads :
         (pc[t] = "idle" /\ held[t] = 0 /\ crypto_refs = U32(0)) =>
           /\ ENABLED Shutdown_DecrUnheld(t)
           /\ ~ ENABLED (/\ Shutdown_DecrUnheld(t)
                         /\ ~ (/\ crypto_refs' = UINT32_MAX
                               /\ pc' = pc
                               /\ proc' = proc
                               /\ UNCHANGED << tablevars, cbvars, libvars,
                                               regvars, countvars >>))
    /\ \A t \in Threads :
         (pc[t] = "idle" /\ crypto_refs = UINT32_MAX /\ calls < MaxCalls) =>
           /\ ENABLED crypto_init(t)
           /\ ~ ENABLED (/\ crypto_init(t)
                         /\ ~ (/\ crypto_refs' = U32(0)
                               /\ pc'[t] = "rec_lock"
                               /\ UNCHANGED << tablevars, cbvars, libvars,
                                               countvars >>))
    /\ setupCount = 0 =>
         ~lib_init /\ ~conf_loaded /\ ssl_mutexes = NULLPTR /\ ~locking_callback

\* after shutdown() at zero, an init() has returned: the caller holds a
\* reference, crypto_refs is 0 and nothing was set up
C20_Witness ==
  /\ Running
  /\ \E t \in Threads : held[t] = 1 /\ pc[t] = "idle"
  /\ calls = 1
  /\ crypto_refs = U32(0)
  /\ setupCount = 0
  /\ ~lib_init
  /\ ~locking_callback
  /\ ssl_mutexes = NULLPTR
====
